---------------------------- MODULE Spec2Model ----------------------------
(***************************************************************************)
(* The projector service: process start-up (cmd/projectord/main.go) and    *)
(* the per-request authorisation middleware (pkg/http/http.go).            *)
(*                                                                         *)
(* Strings are sequences of tokens, so that strconv.Atoi, the %d verb of   *)
(* fmt.Sprintf and strings.Contains are computed, not assumed.  The error  *)
(* bodies are the JSON literals of the source, written as records.         *)
(* The handler closure of authMiddleware keeps all of its state in locals, *)
(* so requests are followed one at a time in req; served counts them.      *)
(***************************************************************************)
EXTENDS Integers, Sequences, FiniteSets, TLC

VARIABLES
    pc,          \* position of main/run
    cfg,         \* the config struct filled by env.Parse
    log,         \* messages logged by main/run, in order
    vote,        \* "none" | "constructed": the vote-count flow of run
    dataFlow,    \* the flow.Flow variable dataFlow of run
    refresher,   \* the goroutine running vote.Connect: "Idle" | "Running" | "Stopped"
    dbFlow,      \* the flow handed to database.New
    httpFlow,    \* the flow handed to projectorHttp.New (field ds)
    routes,      \* patterns registered on the ServeMux with their wrapping
    req,         \* the request being handled by the middleware closure
    served,      \* number of requests that entered the middleware
    unclosed,    \* restriction responses whose body was never closed
    primary,     \* content of dsFlow, by key
    override,    \* content of the vote-count flow, by key
    lastGet,     \* the last point lookup made by a handler
    subscr,      \* a subscription on a flow: its fan-out, the updates, the output
    ctxDone,     \* the context handed to vote.Connect is cancelled
    loop         \* the loop of vote.Connect: position, ticks, results, timer

vars == <<pc, cfg, log, vote, dataFlow, refresher, dbFlow, httpFlow, routes,
          req, served, unclosed, primary, override, lastGet, subscr,
          ctxDone, loop>>

startupVars == <<pc, cfg, log, vote, dataFlow, refresher, dbFlow, httpFlow, routes>>
requestVars == <<req, served, unclosed>>
flowVars == <<primary, override, lastGet, subscr>>
tickVars == <<ctxDone, loop>>

\* Number of requests followed in one behaviour.
MaxRequests == 2

\* Number of ticks the tick source produces in one behaviour.
MaxTicks == 2
MaxUpdates == 2

-----------------------------------------------------------------------------
(* net/http status codes used by the middleware *)

StatusOK == 200
StatusBadRequest == 400
StatusUnauthorized == 401
StatusInternalServerError == 500

-----------------------------------------------------------------------------
(* Strings *)

Digits == <<"0", "1", "2", "3", "4", "5", "6", "7", "8", "9">>

IsDigit(c) == \E d \in 1..10 : Digits[d] = c

DigitVal(c) == (CHOOSE d \in 1..10 : Digits[d] = c) - 1

RECURSIVE ParseDigits(_)
ParseDigits(s) ==
    IF s = <<>> THEN 0
    ELSE 10 * ParseDigits(SubSeq(s, 1, Len(s) - 1)) + DigitVal(s[Len(s)])

\* strconv.Atoi: an optional sign, then one or more decimal digits.
Atoi(s) ==
    LET signed == s # <<>> /\ s[1] \in {"+", "-"}
        digits == IF signed THEN Tail(s) ELSE s
        ok     == digits # <<>> /\ \A i \in 1..Len(digits) : IsDigit(digits[i])
    IN  IF ~ok THEN [err |-> TRUE, val |-> 0]
        ELSE [err |-> FALSE,
              val |-> IF signed /\ s[1] = "-" THEN 0 - ParseDigits(digits)
                      ELSE ParseDigits(digits)]

RECURSIVE FormatNat(_)
FormatNat(n) ==
    IF n < 10 THEN <<Digits[n + 1]>>
    ELSE FormatNat(n \div 10) \o <<Digits[(n % 10) + 1]>>

\* The %d verb of fmt.Sprintf.
FormatInt(n) == IF n < 0 THEN <<"-">> \o FormatNat(0 - n) ELSE FormatNat(n)

\* strings.Contains
Contains(s, sub) ==
    \E i \in 0..(Len(s) - Len(sub)) : SubSeq(s, i + 1, i + Len(sub)) = sub

\* strings.HasPrefix
HasPrefix(s, prefix) ==
    Len(s) >= Len(prefix) /\ SubSeq(s, 1, Len(prefix)) = prefix

Quote == "quote"

\* fmt.Sprintf(`"projector/%d/id":%d`, id, id)
Marker(id) ==
    <<Quote, "projector/">> \o FormatInt(id) \o <<"/id", Quote, ":">> \o FormatInt(id)


-----------------------------------------------------------------------------
(* Flows *)

\* Resource keys, as token sequences.  The first two lie under the override
\* prefix; the last two do not ("poll/5/live_votes" is a key of the poll
\* collection whose second segment is an id, not the prefix's second segment).
Keys ==
    { <<"poll", "/", "live_votes">>,
      <<"poll", "/", "live_votes", "/", "5">>,
      <<"poll", "/", "5", "/", "live_votes">>,
      <<"projector", "/", "7", "/", "id">> }

Nil == "nil"

\* What a flow can hold for a key.  The two flows write distinguishable values.
PrimaryValues == {Nil, "p"}
OverrideValues == {Nil, "o"}

\* The key of the map literal handed to flow.Combine.
OverridePrefix == <<"poll", "/", "live_votes">>

\* flow.Combine(defaultFlow, flows)
Combine(defaultFlow, flows) == [default |-> defaultFlow, flows |-> flows]

\* var dataFlow flow.Flow = dsFlow
InitialDataFlow == [default |-> "dsFlow", flows |-> {}]

\* Variant: the arguments of flow.Combine exchanged.
CombinedDataFlowSwapped ==
    Combine("vote", {[prefix |-> OverridePrefix, flow |-> "dsFlow"]})

\* dataFlow = flow.Combine(dsFlow, map[string]flow.Flow{"poll/live_votes": vote})
CombinedDataFlow ==
    Combine("dsFlow", {[prefix |-> OverridePrefix, flow |-> "vote"]})

\* The underlying flow that answers for key.
RouteKey(f, key) ==
    LET hits == {e \in f.flows : HasPrefix(key, e.prefix)}
    IN  IF hits = {} THEN f.default ELSE (CHOOSE e \in hits : TRUE).flow

Content(name) == IF name = "vote" THEN override ELSE primary

\* get(key) on a flow
FlowGet(f, key) == Content(RouteKey(f, key))[key]

-----------------------------------------------------------------------------
(* main and run *)

RestricterUrls == {"http://autoupdate:9012/internal/autoupdate", "", "%zz"}

Configs ==
    [PublicAccessOnly : BOOLEAN, Development : BOOLEAN, RestricterUrl : RestricterUrls]

NoConfig == [PublicAccessOnly |-> FALSE, Development |-> FALSE, RestricterUrl |-> ""]

NoReq ==
    [pc |-> "idle", route |-> "none", path |-> <<>>, user |-> -1, id |-> 0,
     w |-> [status |-> 0, body |-> <<>>], calls |-> <<>>, resp |-> 0,
     bodyOpen |-> FALSE, b |-> <<>>, readErr |-> FALSE, handler |-> <<>>]

NoFlow == [default |-> "none", flows |-> {}]

NoLoop == [pc |-> "idle", ticks |-> 0, results |-> <<>>, errors |-> 0, timer |-> FALSE]

NoGet == [via |-> "none", key |-> <<>>, value |-> Nil, by |-> "none", p |-> Nil, o |-> Nil]

Sources == {"dsFlow", "vote"}

NoSub ==
    [via |-> "none",
     keys |-> [s \in Sources |-> {}],
     produced |-> [s \in Sources |-> <<>>],
     queue |-> [s \in Sources |-> <<>>],
     merged |-> <<>>]

Init ==
    /\ pc = "parse"
    /\ cfg = NoConfig
    /\ log = <<>>
    /\ vote = "none"
    /\ dataFlow = InitialDataFlow
    /\ refresher = "Idle"
    /\ dbFlow = NoFlow
    /\ httpFlow = NoFlow
    /\ routes = {}
    /\ req = NoReq
    /\ served = 0
    /\ unclosed = 0
    /\ primary = [k \in Keys |-> Nil]
    /\ override = [k \in Keys |-> Nil]
    /\ lastGet = NoGet
    /\ subscr = NoSub
    /\ ctxDone = FALSE
    /\ loop = NoLoop

\* main: env.Parse(&cfg); an error is logged and main goes on to run(cfg).
ParseConfig ==
    /\ pc = "parse"
    /\ \E c \in Configs, failed \in BOOLEAN :
        /\ cfg' = c
        /\ log' = IF failed THEN Append(log, "parsing config") ELSE log
    /\ pc' = "newFlowPostgres"
    /\ UNCHANGED <<vote, dataFlow, refresher, dbFlow, httpFlow, routes, requestVars, flowVars, tickVars>>

\* main: run returned an error.
Fatal(msg) ==
    /\ pc' = "exited"
    /\ log' = Append(log, msg)

\* run: dsFlow, err := datastore.NewFlowPostgres(env)
NewFlowPostgres ==
    /\ pc = "newFlowPostgres"
    /\ \E ok \in BOOLEAN :
        IF ok THEN pc' = "newFlowVoteCount" /\ log' = log
        ELSE Fatal("Error during startup")
    /\ UNCHANGED <<cfg, vote, dataFlow, refresher, dbFlow, httpFlow, routes, requestVars, flowVars, tickVars>>

\* run: vote := datastore.NewFlowVoteCount(env)
NewFlowVoteCount ==
    /\ pc = "newFlowVoteCount"
    /\ vote' = "constructed"
    /\ pc' = "compose"
    /\ UNCHANGED <<cfg, log, dataFlow, refresher, dbFlow, httpFlow, routes, requestVars, flowVars, tickVars>>

\* Variant: the flag is not consulted.
OverlayAlwaysEnabled(c) == TRUE

\* run: the condition of the if statement around flow.Combine and vote.Connect.
OverlayEnabled(c) == ~c.PublicAccessOnly

\* run: var dataFlow = dsFlow; if !cfg.PublicAccessOnly { Combine; go vote.Connect }
ComposeFlow ==
    /\ pc = "compose"
    /\ IF OverlayEnabled(cfg)
       THEN dataFlow' = CombinedDataFlow /\ refresher' = "Running"
       ELSE dataFlow' = InitialDataFlow /\ refresher' = refresher
    /\ pc' = "getDatabase"
    /\ UNCHANGED <<cfg, log, vote, dbFlow, httpFlow, routes, requestVars, flowVars, tickVars>>

\* getDatabase: whether it returns an error.
GetDatabaseFails(c, secretReadable, connected) ==
    \/ ~secretReadable /\ ~c.Development
    \/ ~connected

\* run: ds, err := getDatabase(cfg, dataFlow)
GetDatabase ==
    /\ pc = "getDatabase"
    /\ \E secretReadable \in BOOLEAN, connected \in BOOLEAN :
        IF GetDatabaseFails(cfg, secretReadable, connected)
        THEN Fatal("Error during startup") /\ dbFlow' = dbFlow
        ELSE pc' = "httpNew" /\ log' = log /\ dbFlow' = dataFlow
    /\ UNCHANGED <<cfg, vote, dataFlow, refresher, httpFlow, routes, requestVars, flowVars, tickVars>>

\* The flow argument of the call projectorHttp.New(ctx, ..., serverMux, ds, dsFlow, dsFlow.Pool)
HttpFlowArgument == InitialDataFlow

ProtectedRoutes == {"get", "subscribe", "preview"}

\* registerRoutes
RegisteredRoutes ==
    {[route |-> "health", auth |-> FALSE]}
        \cup {[route |-> r, auth |-> TRUE] : r \in ProtectedRoutes}

\* run: projectorHttp.New(...), which ends in registerRoutes
HttpNew ==
    /\ pc = "httpNew"
    /\ httpFlow' = HttpFlowArgument
    /\ routes' = RegisteredRoutes
    /\ pc' = "listen"
    /\ UNCHANGED <<cfg, log, vote, dataFlow, refresher, dbFlow, requestVars, flowVars, tickVars>>

\* run: srv.ListenAndServe()
ListenAndServe ==
    /\ pc = "listen"
    /\ \E bound \in BOOLEAN :
        IF bound THEN pc' = "serving" /\ log' = log
        ELSE Fatal("Could not listen and serve")
    /\ UNCHANGED <<cfg, vote, dataFlow, refresher, dbFlow, httpFlow, routes, requestVars, flowVars, tickVars>>

StartupNext ==
    \/ ParseConfig
    \/ NewFlowPostgres
    \/ NewFlowVoteCount
    \/ ComposeFlow
    \/ GetDatabase
    \/ HttpNew
    \/ ListenAndServe

-----------------------------------------------------------------------------
(* authMiddleware *)

\* Values of the {id} path segment; the ServeMux wildcard matches no empty segment.
PathValues ==
    { <<"7">>, <<"0", "7">>, <<"-", "7">>, <<"a", "b", "c">>, <<"7", "a">> }

\* Caller identities auth.Authenticate can put into the context.
UserIds == {1, 2}

\* The context of the incoming request carries no identity.
NoUser == -1

\* Status codes the restriction service answers with.
RestrictionStatuses == {200, 201, 403, 500}

\* Bodies the restriction service answers with.
Bodies ==
    { <<"{", "}">>,
      <<"{">> \o Marker(7) \o <<"}">>,
      <<"{">> \o Marker(-7) \o <<"}">>,
      <<"{">> \o Marker(17) \o <<"}">> }

\* The literal `{"error": true, "msg": "<msg>"}`
ErrorBody(msg) == [error |-> TRUE, msg |-> msg]

\* http.ResponseWriter.WriteHeader: the first status code written is the one sent.
WriteHeader(w, code) == IF w.status = 0 THEN [w EXCEPT !.status = code] ELSE w

\* writeResponse: fmt.Fprintln(w, resp); a Write with no status written yet sends 200.
writeResponse(w, resp) ==
    [status |-> IF w.status = 0 THEN StatusOK ELSE w.status,
     body   |-> Append(w.body, resp)]

\* Variant: the body is written before any status, so 200 is sent.
AuthFailedResponseNoHeader(w) ==
    writeResponse(w, ErrorBody("authenticate request failed"))

\* if err != nil after auth.Authenticate
AuthFailedResponse(w) ==
    writeResponse(WriteHeader(w, StatusUnauthorized),
                  ErrorBody("authenticate request failed"))

\* Variant: the body is written before any status, so 200 is sent.
InvalidIdResponseNoHeader(w) ==
    writeResponse(w, ErrorBody("Projector id invalid"))

\* if err != nil after strconv.Atoi
InvalidIdResponse(w) ==
    writeResponse(WriteHeader(w, StatusBadRequest), ErrorBody("Projector id invalid"))

\* if err != nil after http.NewRequest
CreateFailedResponse(w) ==
    writeResponse(w, ErrorBody("creating restriction request failed"))

\* Variant: the status is written and the body forgotten.
SendFailedResponseHeaderOnly(w) == WriteHeader(w, StatusInternalServerError)

\* if err != nil after client.Do
SendFailedResponse(w) ==
    writeResponse(WriteHeader(w, StatusInternalServerError),
                  ErrorBody("restriction request failed"))

\* if resp.StatusCode != http.StatusOK
StatusFailedResponse(w, code) ==
    writeResponse(WriteHeader(w, code), ErrorBody("restriction request failed"))

\* Variant: the body is written before any status, so 200 is sent.
DeniedResponseNoHeader(w) == writeResponse(w, ErrorBody("permissions denied"))

\* after io.ReadAll, when the permission test fails
DeniedResponse(w) ==
    writeResponse(WriteHeader(w, StatusUnauthorized), ErrorBody("permissions denied"))

\* http.NewRequest fails when the URL does not parse.
NewRequestFails(url) == url = "%zz"

\* client.Do can only get a response from a URL with a scheme and a host.
TransportCanSucceed(url) == url = "http://autoupdate:9012/internal/autoupdate"

\* Variant: only the error classes 4xx and 5xx are rejected.
StatusRejectedOnlyErrors(code) == code >= StatusBadRequest

\* resp.StatusCode != http.StatusOK
StatusRejected(code) == code # StatusOK

\* Variant: the error of io.ReadAll is dropped.
PermissionDeniedIgnoringReadError(readErr, b, id) == ~Contains(b, Marker(id))

\* err != nil || !strings.Contains(string(b), fmt.Sprintf(`"projector/%d/id":%d`, id, id))
PermissionDenied(readErr, b, id) == readErr \/ ~Contains(b, Marker(id))

\* Variant: next.ServeHTTP(w, r), the request as it came in.
ForwardedRequestNoContext(r) == [route |-> r.route, path |-> r.path, user |-> NoUser]

\* r.WithContext(ctx): what next.ServeHTTP receives.
ForwardedRequest(r) == [route |-> r.route, path |-> r.path, user |-> r.user]

\* The request leaves the closure: a response body still open is never closed.
Leave(r) == [r EXCEPT !.pc = "done"]

Leaked(r) == IF r.pc = "done" /\ r.bodyOpen THEN 1 ELSE 0

\* The ServeMux dispatches a request to the handler registered for its route.
Arrive ==
    /\ pc = "serving"
    /\ req.pc \in {"idle", "done"}
    /\ served < MaxRequests
    /\ served' = served + 1
    /\ \E e \in routes, path \in PathValues :
        IF e.auth
        THEN req' = [NoReq EXCEPT !.pc = "authenticate", !.route = e.route, !.path = path]
        ELSE req' = [NoReq EXCEPT !.pc = "done", !.route = e.route,
                                  !.handler = <<[route |-> e.route, path |-> <<>>,
                                                 user |-> NoUser]>>]
    /\ UNCHANGED <<unclosed, startupVars, flowVars, tickVars>>

\* ctx, err := auth.Authenticate(w, r)
Authenticate ==
    /\ pc = "serving"
    /\ req.pc = "authenticate"
    /\ \/ req' = Leave([req EXCEPT !.w = AuthFailedResponse(req.w)])
       \/ \E uid \in UserIds : req' = [req EXCEPT !.pc = "atoi", !.user = uid]
    /\ UNCHANGED <<served, unclosed, startupVars, flowVars, tickVars>>

\* id, err := strconv.Atoi(r.PathValue("id"))
ParseId ==
    /\ pc = "serving"
    /\ req.pc = "atoi"
    /\ LET a == Atoi(req.path)
       IN  IF a.err
           THEN req' = Leave([req EXCEPT !.w = InvalidIdResponse(req.w)])
           ELSE req' = [req EXCEPT !.pc = "newRequest", !.id = a.val]
    /\ UNCHANGED <<served, unclosed, startupVars, flowVars, tickVars>>

\* req, err := http.NewRequest("POST", restrictUrl, bytes.NewReader(body))
NewRequest ==
    /\ pc = "serving"
    /\ req.pc = "newRequest"
    /\ IF NewRequestFails(cfg.RestricterUrl)
       THEN req' = Leave([req EXCEPT !.w = CreateFailedResponse(req.w)])
       ELSE req' = [req EXCEPT !.pc = "do"]
    /\ UNCHANGED <<served, unclosed, startupVars, flowVars, tickVars>>

\* Variant: the query names the projector and leaves the caller id at its zero value.
RestrictionCallNoUser(r) == [user |-> 0, id |-> r.id]

\* The restriction request: ids [id] in the body, user_id in the URL.
RestrictionCall(r) == [user |-> r.user, id |-> r.id]

\* resp, err := client.Do(req)
Do ==
    /\ pc = "serving"
    /\ req.pc = "do"
    /\ LET sent == [req EXCEPT !.calls = Append(req.calls, RestrictionCall(req))]
       IN  \/ req' = Leave([sent EXCEPT !.w = SendFailedResponse(req.w)])
           \/ /\ TransportCanSucceed(cfg.RestricterUrl)
              /\ \E code \in RestrictionStatuses :
                    req' = [sent EXCEPT !.pc = "checkStatus", !.resp = code,
                                        !.bodyOpen = TRUE]
    /\ UNCHANGED <<served, unclosed, startupVars, flowVars, tickVars>>

\* if resp.StatusCode != http.StatusOK { ... return }
CheckStatus ==
    /\ pc = "serving"
    /\ req.pc = "checkStatus"
    /\ IF StatusRejected(req.resp)
       THEN req' = Leave([req EXCEPT !.w = StatusFailedResponse(req.w, req.resp)])
       ELSE req' = [req EXCEPT !.pc = "readAll"]
    /\ served' = served
    /\ unclosed' = unclosed + Leaked(req')
    /\ UNCHANGED <<startupVars, flowVars, tickVars>>

\* b, err := io.ReadAll(resp.Body), and the permission test
ReadAll ==
    /\ pc = "serving"
    /\ req.pc = "readAll"
    /\ \E b \in Bodies, readErr \in BOOLEAN :
        LET read == [req EXCEPT !.b = b, !.readErr = readErr]
        IN  IF PermissionDenied(readErr, b, req.id)
            THEN req' = Leave([read EXCEPT !.w = DeniedResponse(req.w)])
            ELSE req' = [read EXCEPT !.pc = "close"]
    /\ served' = served
    /\ unclosed' = unclosed + Leaked(req')
    /\ UNCHANGED <<startupVars, flowVars, tickVars>>

\* resp.Body.Close(); an error is logged
CloseBody ==
    /\ pc = "serving"
    /\ req.pc = "close"
    /\ req' = [req EXCEPT !.pc = "serve", !.bodyOpen = FALSE]
    /\ UNCHANGED <<served, unclosed, startupVars, flowVars, tickVars>>

\* next.ServeHTTP(w, r.WithContext(ctx))
ServeHTTP ==
    /\ pc = "serving"
    /\ req.pc = "serve"
    /\ req' = Leave([req EXCEPT !.handler = Append(req.handler, ForwardedRequest(req))])
    /\ UNCHANGED <<served, unclosed, startupVars, flowVars, tickVars>>

RequestNext ==
    \/ Arrive
    \/ Authenticate
    \/ ParseId
    \/ NewRequest
    \/ Do
    \/ CheckStatus
    \/ ReadAll
    \/ CloseBody
    \/ ServeHTTP

Next == StartupNext \/ RequestNext

Spec == Init /\ [][Next]_vars

-----------------------------------------------------------------------------
(* The flows at work: updates of their content and the handlers' lookups *)

\* The datastore changes a key of the primary flow.
PrimaryUpdate ==
    /\ pc = "serving"
    /\ \E k \in Keys, v \in PrimaryValues : primary' = [primary EXCEPT ![k] = v]
    /\ UNCHANGED <<override, lastGet, subscr, startupVars, requestVars, tickVars>>

\* vote.Connect: a tick of the eventer refreshes the content of the vote flow.
RefreshTick ==
    /\ pc = "serving"
    /\ refresher = "Running"
    /\ \E k \in Keys, v \in OverrideValues : override' = [override EXCEPT ![k] = v]
    /\ UNCHANGED <<primary, lastGet, subscr, startupVars, requestVars, tickVars>>

\* The flow behind each handle of projectorHttp: db (the Datastore) and ds.
Handle(via) == IF via = "db" THEN dbFlow ELSE httpFlow

\* A handler looks a key up through one of its handles.
HandlerGet ==
    /\ pc = "serving"
    /\ \E via \in {"db", "ds"}, k \in Keys :
        lastGet' = [via |-> via, key |-> k,
                    value |-> FlowGet(Handle(via), k),
                    by |-> RouteKey(Handle(via), k),
                    p |-> primary[k], o |-> override[k]]
    /\ UNCHANGED <<primary, override, subscr, startupVars, requestVars, tickVars>>

FlowNext ==
    \/ PrimaryUpdate
    \/ RefreshTick
    \/ HandlerGet

SpecFlow == Init /\ [][StartupNext \/ FlowNext]_vars

-----------------------------------------------------------------------------
(* Properties of authMiddleware *)

\* The request in req went through authMiddleware.
Protected == req.route \in ProtectedRoutes

\* The closure has returned.
Returned == Protected /\ req.pc = "done"

Invoked == req.handler # <<>>

Authenticated == req.user \in UserIds

IdIsInteger == ~Atoi(req.path).err

RequestedId == Atoi(req.path).val

\* The restriction service answered, with this status.
Answered(code) == req.calls # <<>> /\ req.resp = code

MarkerRead == ~req.readErr /\ Contains(req.b, Marker(RequestedId))

Rejected(code, msg) ==
    /\ req.w = [status |-> code, body |-> <<ErrorBody(msg)>>]
    /\ ~Invoked

(* C1: on a protected route the wrapped handler is invoked only if           *)
(* authentication succeeded, the id parsed as an integer, the restriction    *)
(* service answered 200 and the body was read and contains the marker for    *)
(* that id; on every other path it is never invoked.                         *)
C1_FailClosed ==
    (Protected /\ Invoked) =>
        /\ Authenticated
        /\ IdIsInteger
        /\ req.id = RequestedId
        /\ Answered(StatusOK)
        /\ MarkerRead

\* A request was admitted although the service also knows other projectors.
C1_Witness ==
    /\ Returned /\ Invoked
    /\ req.path = <<"0", "7">>
    /\ req.b = <<"{">> \o Marker(7) \o <<"}">>

(* C2, as claimed: every request to a protected route whose id is not an     *)
(* integer is answered 400 "Projector id invalid", with no restriction call  *)
(* and no handler invocation, whatever its credentials are.                  *)
C2_Original ==
    (Returned /\ ~IdIsInteger) =>
        /\ Rejected(StatusBadRequest, "Projector id invalid")
        /\ req.calls = <<>>

(* C2, amended: every request to a protected route that passed              *)
(* authentication and whose id is not an integer is answered 400            *)
(* "Projector id invalid", with no restriction call and no handler          *)
(* invocation; one that failed authentication is answered 401 whatever its  *)
(* id is.                                                                   *)
C2_InvalidId ==
    /\ (Returned /\ Authenticated /\ ~IdIsInteger) =>
            /\ Rejected(StatusBadRequest, "Projector id invalid")
            /\ req.calls = <<>>
    /\ (Returned /\ ~Authenticated) => req.w.status = StatusUnauthorized
    /\ (Protected /\ ~IdIsInteger) => (req.calls = <<>> /\ ~Invoked)

C2_Witness ==
    /\ Returned /\ Authenticated
    /\ req.route = "get"
    /\ req.path = <<"a", "b", "c">>
    /\ req.w.status = StatusBadRequest

(* C3: every request to a protected route for which authentication fails is *)
(* answered 401 "authenticate request failed", makes no restriction call    *)
(* and does not reach the wrapped handler.                                  *)
C3_Unauthenticated ==
    /\ (Returned /\ ~Authenticated) =>
            /\ Rejected(StatusUnauthorized, "authenticate request failed")
            /\ req.calls = <<>>
    /\ (Protected /\ ~Authenticated) => (req.calls = <<>> /\ ~Invoked)

C3_Witness ==
    /\ Returned /\ ~Authenticated
    /\ IdIsInteger
    /\ req.w.body = <<ErrorBody("authenticate request failed")>>

C5_Denied ==
    (Returned /\ Answered(StatusOK) /\ ~MarkerRead) =>
        Rejected(StatusUnauthorized, "permissions denied")

\* The body holds the marker of projector 17, the request asks for 7.
C5_Witness ==
    /\ Returned /\ Answered(StatusOK)
    /\ RequestedId = 7
    /\ ~req.readErr
    /\ req.b = <<"{">> \o Marker(17) \o <<"}">>
    /\ req.w.status = StatusUnauthorized

(* C6: an authenticated request with an integer id, answered 200 with a     *)
(* body that contains the marker for that id, reaches the wrapped handler   *)
(* of its route exactly once, carrying the caller identity in its context,  *)
(* and the middleware writes neither a status nor a body.                   *)
C6_Admitted ==
    (Returned /\ Authenticated /\ IdIsInteger /\ Answered(StatusOK) /\ MarkerRead) =>
        /\ req.handler = <<[route |-> req.route, path |-> req.path, user |-> req.user]>>
        /\ req.user # NoUser
        /\ req.w = [status |-> 0, body |-> <<>>]

C6_Witness ==
    /\ Returned /\ Authenticated
    /\ req.path = <<"7">>
    /\ Answered(StatusOK)
    /\ Contains(req.b, Marker(7))
    /\ Len(req.handler) = 1
    /\ req.handler[1].user = 2

\* http.NewRequest failed: the closure returned before client.Do.
ConstructionFailed == Returned /\ Authenticated /\ IdIsInteger /\ req.calls = <<>>

\* client.Do failed: a call was made and no response came back.
SendFailed == Returned /\ req.calls # <<>> /\ req.resp = 0

(* C7, as claimed: when constructing or sending the restriction request     *)
(* fails, the answer is a 500/502 status with a body {"error": true,        *)
(* "msg": "...request failed"}, and the wrapped handler is not invoked.     *)
C7_Original ==
    (ConstructionFailed \/ SendFailed) =>
        /\ req.w.status \in {StatusInternalServerError, 502}
        /\ req.w.body \in { <<ErrorBody("creating restriction request failed")>>,
                            <<ErrorBody("restriction request failed")>> }
        /\ ~Invoked

-----------------------------------------------------------------------------
(* Properties of the flows wired by run *)

\* A handler looked a key up through the Datastore, which reads dataFlow.
ComposedLookup == lastGet.via = "db"

UnderOverridePrefix(key) == HasPrefix(key, OverridePrefix)

(* C9: a lookup on the composed flow is answered by one underlying flow,    *)
(* chosen by prefix match alone: under the registered prefix                *)
(* "poll/live_votes" the answer is what the override flow holds, whatever   *)
(* the primary flow holds for that key; under no registered prefix it is    *)
(* what the primary flow holds.                                             *)
C9_Routing ==
    ComposedLookup =>
        IF ~cfg.PublicAccessOnly /\ UnderOverridePrefix(lastGet.key)
        THEN lastGet.by = "vote" /\ lastGet.value = lastGet.o
        ELSE lastGet.by = "dsFlow" /\ lastGet.value = lastGet.p

\* Both flows hold the key and the override flow's value is returned.
C9_Witness ==
    /\ ComposedLookup
    /\ lastGet.key = <<"poll", "/", "live_votes", "/", "5">>
    /\ lastGet.p = "p"
    /\ lastGet.o = "o"
    /\ lastGet.value = "o"

\* run has read the flag.
PublicOnly == pc # "parse" /\ cfg.PublicAccessOnly

\* In public-access-only mode nothing is registered, nothing refreshes, and
\* every handle reads the primary flow.
PublicOnlyServesPrimary ==
    /\ dataFlow.flows = {}
    /\ refresher = "Idle"
    /\ override = [k \in Keys |-> Nil]
    /\ pc = "serving" =>
            /\ dbFlow = InitialDataFlow
            /\ \A k \in Keys : FlowGet(dbFlow, k) = primary[k]
            /\ \A k \in Keys : FlowGet(httpFlow, k) = primary[k]
    /\ lastGet.via # "none" => (lastGet.by = "dsFlow" /\ lastGet.value = lastGet.p)

(* C10, as claimed: in public-access-only mode the override flow is never   *)
(* constructed or registered, no refresher is started, and the flow served  *)
(* is the primary flow for all keys.                                        *)
C10_Original == PublicOnly => (vote = "none" /\ PublicOnlyServesPrimary)

(* C10, amended: in public-access-only mode the override flow is            *)
(* constructed (run builds it before it tests the flag) but never           *)
(* registered, no refresher is started, and the flow served is the primary  *)
(* flow for all keys.                                                       *)
C10_PublicOnly ==
    PublicOnly =>
        /\ pc \in {"compose", "getDatabase", "httpNew", "listen", "serving"}
                => vote = "constructed"
        /\ PublicOnlyServesPrimary

C10_Witness ==
    /\ PublicOnly
    /\ pc = "serving"
    /\ ComposedLookup
    /\ UnderOverridePrefix(lastGet.key)
    /\ lastGet.value = "p"

-----------------------------------------------------------------------------
(* Further properties of run and authMiddleware *)

OverlayOn == pc = "serving" /\ ~cfg.PublicAccessOnly

(* C12, as claimed: with the overlay enabled every flow handle wired into   *)
(* the request handling at start-up is the composed flow, so a handler's    *)
(* lookup of a key under "poll/live_votes" is answered by the override      *)
(* flow, not by the primary flow.                                           *)
C12_Original ==
    OverlayOn =>
        /\ dbFlow = CombinedDataFlow
        /\ httpFlow = CombinedDataFlow
        /\ (lastGet.via # "none" /\ UnderOverridePrefix(lastGet.key))
                => lastGet.by = "vote"

(* C13, as claimed: each protected request that passes authentication and   *)
(* id validation makes exactly one restriction call of its own, for its id  *)
(* and its caller; requests rejected before that make none.                 *)
C13_Original ==
    /\ (Returned /\ Authenticated /\ IdIsInteger) =>
            req.calls = <<[user |-> req.user, id |-> RequestedId]>>
    /\ (Returned /\ ~(Authenticated /\ IdIsInteger)) => req.calls = <<>>

(* C13, amended: each protected request that passes authentication and id  *)
(* validation makes exactly one restriction call of its own, for its id and *)
(* its caller, unless the restriction request cannot be constructed, in     *)
(* which case it makes none; never a second call, also not after the        *)
(* handler was invoked, and never none because an earlier request was       *)
(* admitted; requests rejected at authentication or id validation make no   *)
(* call.                                                                    *)
C13_OneCall ==
    /\ (Returned /\ Authenticated /\ IdIsInteger) =>
            IF NewRequestFails(cfg.RestricterUrl)
            THEN req.calls = <<>>
            ELSE req.calls = <<[user |-> req.user, id |-> RequestedId]>>
    /\ (Returned /\ ~(Authenticated /\ IdIsInteger)) => req.calls = <<>>
    /\ Len(req.calls) <= 1
    /\ (Protected /\ Invoked) => req.calls = <<[user |-> req.user, id |-> RequestedId]>>

\* The second request of a behaviour, for the same projector, makes its own call.
C13_Witness ==
    /\ served = 2
    /\ Returned /\ Invoked
    /\ req.route = "subscribe"
    /\ req.calls = <<[user |-> 2, id |-> 7]>>

(* C17, as claimed: a malformed configuration, a failed storage connection  *)
(* or a failed bind ends the process; it never serves requests after a      *)
(* configuration parse failure or a storage connection failure.             *)
C17_Original ==
    (\E i \in 1..Len(log) : log[i] = "parsing config") => pc # "serving"

(* C18, as claimed: every request the middleware rejects is answered with   *)
(* a status outside 2xx, also when the restriction request could not be     *)
(* constructed and when the restriction service answered 2xx other than 200.*)
C18_Original ==
    (Returned /\ ~Invoked) => ~(req.w.status >= 200 /\ req.w.status <= 299)

(* C19, as claimed: whenever the restriction call returned a response, its  *)
(* body is closed before the middleware finishes the request, on every      *)
(* outcome, so no sequence of requests accumulates unclosed bodies.         *)
C19_Original ==
    /\ Returned => ~req.bodyOpen
    /\ unclosed = 0

-----------------------------------------------------------------------------
(* vote.Connect, started by run with the eventer and the error callback     *)
(* of run.  The loop waits for the event of a fresh timer or for the end of *)
(* its context, refreshes on the event and reports a failed refresh.        *)

\* Variant: eventer hands out a channel on which no event ever arrives.
EventerArmNothing(l) == l

\* eventer: timer := time.NewTimer(time.Second); return timer.C, ...
EventerArm(l) == [l EXCEPT !.timer = TRUE]

\* Variant: eventer returns a stop function that leaves the timer running.
EventerStopNothing(l) == l

\* eventer: return ..., timer.Stop
EventerStop(l) == [l EXCEPT !.timer = FALSE]

\* Variant: the callback ends the process, as log.Fatal does.
OnErrorFatal ==
    /\ pc' = "exited"
    /\ log' = Append(log, "vote connect")

\* The error callback of run: func(err error) {}
OnError == UNCHANGED <<pc, log>>

LoopAlive == pc # "exited" /\ refresher = "Running"

\* Top of the loop: leave when the context is done, else ask the eventer for a timer.
ConnectLoop ==
    /\ LoopAlive
    /\ loop.pc = "idle"
    /\ IF ctxDone
       THEN loop' = [loop EXCEPT !.pc = "stopped"] /\ refresher' = "Stopped"
       ELSE loop' = EventerArm([loop EXCEPT !.pc = "select"]) /\ refresher' = refresher
    /\ UNCHANGED <<pc, cfg, log, vote, dataFlow, dbFlow, httpFlow, routes, ctxDone,
                   requestVars, flowVars>>

\* The timer fires and the loop receives its event.
Tick ==
    /\ LoopAlive
    /\ loop.pc = "select"
    /\ loop.timer
    /\ loop.ticks < MaxTicks
    /\ loop' = [loop EXCEPT !.pc = "onTick", !.ticks = loop.ticks + 1, !.timer = FALSE]
    /\ UNCHANGED <<ctxDone, startupVars, requestVars, flowVars>>

\* The loop receives the end of its context and calls the stop function.
ObserveCancel ==
    /\ LoopAlive
    /\ loop.pc = "select"
    /\ ctxDone
    /\ loop' = EventerStop([loop EXCEPT !.pc = "stopped"])
    /\ refresher' = "Stopped"
    /\ UNCHANGED <<pc, cfg, log, vote, dataFlow, dbFlow, httpFlow, routes, ctxDone,
                   requestVars, flowVars>>

\* onTick: the refresh, which succeeds or fails.
OnTick ==
    /\ LoopAlive
    /\ loop.pc = "onTick"
    /\ \E result \in {"ok", "failed"} :
        loop' = [loop EXCEPT !.results = Append(loop.results, result),
                             !.pc = IF result = "ok" THEN "idle" ELSE "onError"]
    /\ UNCHANGED <<ctxDone, startupVars, requestVars, flowVars>>

\* The failure is handed to the error callback and the loop goes on.
HandleError ==
    /\ LoopAlive
    /\ loop.pc = "onError"
    /\ OnError
    /\ loop' = [loop EXCEPT !.pc = "idle", !.errors = loop.errors + 1]
    /\ UNCHANGED <<cfg, vote, dataFlow, refresher, dbFlow, httpFlow, routes, ctxDone,
                   requestVars, flowVars>>

\* Process-wide shutdown cancels the context of the loop.
Cancel ==
    /\ pc = "serving"
    /\ ~ctxDone
    /\ ctxDone' = TRUE
    /\ UNCHANGED <<loop, startupVars, requestVars, flowVars>>

LoopStep == ConnectLoop \/ ObserveCancel \/ OnTick \/ HandleError

RefresherNext ==
    \/ ConnectLoop
    \/ Tick
    \/ ObserveCancel
    \/ OnTick
    \/ HandleError
    \/ Cancel

\* The loop is scheduled: a step it can take is taken.
SpecRefresher ==
    Init /\ [][StartupNext \/ RefresherNext]_vars /\ WF_vars(LoopStep)

\* The loop under the context run gives it: context.Background() is never done.
BackgroundNext ==
    \/ ConnectLoop
    \/ Tick
    \/ OnTick
    \/ HandleError

\* Requests and the loop side by side.
SpecConcurrent == Init /\ [][StartupNext \/ RequestNext \/ BackgroundNext]_vars

-----------------------------------------------------------------------------
(* Properties of the refresh loop *)

FailedRefreshes ==
    Cardinality({i \in 1..Len(loop.results) : loop.results[i] = "failed"})

\* Ticks received, refreshes made and errors reported agree at every position
\* of the loop.
TickAccounting ==
    /\ Len(loop.results) + (IF loop.pc = "onTick" THEN 1 ELSE 0) = loop.ticks
    /\ loop.errors + (IF loop.pc = "onError" THEN 1 ELSE 0) = FailedRefreshes
    /\ loop.pc \in {"idle", "select", "stopped"} => Len(loop.results) = loop.ticks
    /\ (LoopAlive /\ loop.pc = "select" /\ loop.ticks < MaxTicks) => ENABLED Tick

\* A reported failure leaves the loop and the process running.
FailureIsNotFatal ==
    (loop.pc = "onError" /\ loop'.pc # "onError") =>
        /\ loop'.pc = "idle"
        /\ loop'.errors = loop.errors + 1
        /\ pc' = pc
        /\ refresher' = "Running"

(* C11: onTick is invoked once for each tick received before the context    *)
(* is cancelled, whichever invocations fail; a failing onTick is reported   *)
(* to onError and the loop goes on to the next tick.                        *)
C11_TickAccounting == []TickAccounting /\ [][FailureIsNotFatal]_vars

\* The first refresh failed, the second was made all the same.
C11_Witness ==
    /\ refresher = "Running"
    /\ loop.pc = "select"
    /\ loop.results = <<"failed", "ok">>
    /\ loop.errors = 1

LifecycleStep ==
    \/ refresher' = refresher
    \/ refresher = "Idle" /\ refresher' = "Running"
    \/ refresher = "Running" /\ refresher' = "Stopped" /\ ctxDone

TickKeepsRunning ==
    loop'.ticks # loop.ticks => (refresher = "Running" /\ refresher' = "Running")

StoppedIsTerminal ==
    refresher = "Stopped" => (refresher' = "Stopped" /\ loop' = loop)

StoppedReleased == refresher = "Stopped" => (ctxDone /\ ~loop.timer)

InFlight == req.pc \notin {"idle", "done"}

StartupMessages == {"parsing config", "Error during startup", "Could not listen and serve"}

\* A step of the loop or of its context changes nothing a request reads or writes.
LoopLeavesRequests ==
    (loop' # loop \/ ctxDone' # ctxDone) =>
        /\ req' = req
        /\ served' = served
        /\ unclosed' = unclosed
        /\ pc' = pc
        /\ cfg' = cfg
        /\ log' = log

(* C15: whatever the loop is doing, a request in flight can take its next   *)
(* step, no step of the loop changes a request or the process it runs in,   *)
(* and a failed refresh reaches the error callback only.                    *)
C15_Isolation ==
    /\ [](InFlight => ENABLED RequestNext)
    /\ [][LoopLeavesRequests]_vars
    /\ [](\A i \in 1..Len(log) : log[i] \in StartupMessages)
    /\ [](loop.errors <= FailedRefreshes)

\* A request was admitted while a refresh, after a failed one, is still running.
C15_Witness ==
    /\ Returned /\ Invoked
    /\ loop.pc = "onTick"
    /\ loop.results = <<"failed">>
    /\ loop.errors = 1

-----------------------------------------------------------------------------
(* A subscription on a flow.  The flow made by flow.Combine hands each key  *)
(* to the underlying flow that answers for it and merges the updates the    *)
(* underlying flows produce into one output sequence.                       *)

\* subscribe(Keys) through a handle: every key goes to the flow that answers for it.
Subscribe ==
    /\ pc = "serving"
    /\ subscr.via = "none"
    /\ \E via \in {"db", "ds"} :
        subscr' = [subscr EXCEPT
                  !.via = via,
                  !.keys = [s \in Sources |->
                              {k \in Keys : RouteKey(Handle(via), k) = s}]]
    /\ UNCHANGED <<primary, override, lastGet, startupVars, requestVars, tickVars>>

\* An underlying flow produces an update for one of the keys subscribed with it.
\* The vote flow has updates only while vote.Connect runs.
Produce ==
    /\ pc = "serving"
    /\ subscr.via # "none"
    /\ \E s \in Sources :
        /\ Len(subscr.produced[s]) < MaxUpdates
        /\ s = "vote" => refresher = "Running"
        /\ \E k \in subscr.keys[s] :
            LET u == [by |-> s, key |-> k, n |-> Len(subscr.produced[s]) + 1,
                      value |-> IF s = "vote" THEN "o" ELSE "p"]
            IN  subscr' = [subscr EXCEPT !.produced[s] = Append(@, u),
                                   !.queue[s] = Append(@, u)]
    /\ UNCHANGED <<primary, override, lastGet, startupVars, requestVars, tickVars>>

\* The merge takes the oldest pending update of one underlying flow.
Deliver ==
    /\ pc = "serving"
    /\ \E s \in Sources :
        /\ subscr.queue[s] # <<>>
        /\ subscr' = [subscr EXCEPT !.merged = Append(@, Head(subscr.queue[s])),
                              !.queue[s] = Tail(@)]
    /\ UNCHANGED <<primary, override, lastGet, startupVars, requestVars, tickVars>>

MergeNext ==
    \/ Subscribe
    \/ Produce
    \/ Deliver

SpecMerge == Init /\ [][StartupNext \/ MergeNext]_vars /\ WF_vars(Deliver)

-----------------------------------------------------------------------------
(* Properties of the subscription merge *)

\* The part of the output that one underlying flow produced.
FromSource(s) == SelectSeq(subscr.merged, LAMBDA u : u.by = s)

\* Output and pending updates of each flow, in order, are what it produced.
MergeAccounting ==
    \A s \in Sources : FromSource(s) \o subscr.queue[s] = subscr.produced[s]

\* On the composed flow, what is under the prefix comes from the vote flow,
\* everything else from the primary flow, each with the value its flow wrote.
MergeAttribution ==
    (~cfg.PublicAccessOnly /\ subscr.via = "db") =>
        \A i \in 1..Len(subscr.merged) :
            LET u == subscr.merged[i]
            IN  /\ u.by = (IF UnderOverridePrefix(u.key) THEN "vote" ELSE "dsFlow")
                /\ u.value = (IF UnderOverridePrefix(u.key) THEN "o" ELSE "p")

MergeDelivered == \A s \in Sources : FromSource(s) = subscr.produced[s]

(* C16: for a subscription on the composed flow whose keys lie on both      *)
(* sides of the prefix, the output holds the updates of each underlying     *)
(* flow once each and in the order produced, none under the other flow's    *)
(* keys, however the two flows interleave; every update produced reaches    *)
(* the output.                                                              *)
C16_Merge ==
    /\ [](MergeAccounting /\ MergeAttribution)
    /\ []<>MergeDelivered

\* Two updates of each flow, delivered alternately, vote flow first.
C16_Witness ==
    /\ ~cfg.PublicAccessOnly /\ subscr.via = "db"
    /\ Len(subscr.merged) = 4
    /\ subscr.merged[1].by = "vote" /\ subscr.merged[2].by = "dsFlow"
    /\ subscr.merged[3].by = "vote" /\ subscr.merged[4].by = "dsFlow"
    /\ subscr.merged[1].key # subscr.merged[3].key

=============================================================================
